---- MODULE Spec2Model ----
(***************************************************************************)
(* Upload orchestration and health probe of the document SMB relay.        *)
(*                                                                         *)
(* Two implementations live in the repository and both are modelled:       *)
(*   "pkg"    app/smb/connection.py + app/smb/operations.py                *)
(*   "legacy" app/smb.py (the same bodies are repeated in app/main.py)     *)
(* An invocation (one call of smb_upload_file or of check_smb_health) is   *)
(* a process p; it advances one remote operation at a time.  The share is  *)
(* the only state the invocations have in common.                          *)
(*                                                                         *)
(* The session get_conn hands out is used as operations.py and smb.py use  *)
(* it: through listPath, createDirectory, getAttributes, storeFile and     *)
(* close, each of which returns or raises as the server decides.           *)
(*                                                                         *)
(* Text is a sequence of tokens: a path is a sequence of one-character     *)
(* strings, a literal fragment of a message is one token.                  *)
(***************************************************************************)
EXTENDS Integers, Sequences, FiniteSets, TLC

\* ------------------------------------------------------------------ bounds

\* number of invocation slots
NumProcs == 2

\* the size of a chunk read from the upload (64 KiB in the code), in bytes
ChunkSize == 2

\* deepest directory nesting of the remote paths that are uploaded
MaxDepth == 2

Procs == 1..NumProcs

\* ------------------------------------------------------------------ text

SegNames == <<"a", "b", "c", "d", "e">>

RECURSIVE NestedPath(_)
\* "f", "a/f", "a/b/f", ... : a file under d nested directories
NestedPath(d) ==
    IF d = 0 THEN <<"f">>
    ELSE LET rest == NestedPath(d - 1)
             n    == d
         IN  SubSeq(rest, 1, Len(rest) - 1) \o <<SegNames[n], "/", "f">>

\* remote paths handed to the core; "a//b//f" has empty segments, in its
\* directory part and before the file name
RemotePaths ==
    {NestedPath(d) : d \in 0..MaxDepth} \cup {<<"a", "/", "/", "b", "/", "/", "f">>}

RECURSIVE LastSlash(_)
\* str.rfind("/") + 1
LastSlash(s) ==
    IF s = <<>> THEN 0
    ELSE IF s[Len(s)] = "/" THEN Len(s)
    ELSE LastSlash(SubSeq(s, 1, Len(s) - 1))

AllSlash(s) == \A k \in 1..Len(s) : s[k] = "/"

RECURSIVE RStripSlash(_)
\* str.rstrip("/")
RStripSlash(s) ==
    IF s # <<>> /\ s[Len(s)] = "/" THEN RStripSlash(SubSeq(s, 1, Len(s) - 1))
    ELSE s

\* os.path.dirname (posixpath)
dirname(p) ==
    LET head == SubSeq(p, 1, LastSlash(p))
    IN  IF head # <<>> /\ ~AllSlash(head) THEN RStripSlash(head) ELSE head

RECURSIVE SplitSlash(_)
\* str.split("/"): the segments between slashes, empty ones included
SplitSlash(s) ==
    IF \A k \in 1..Len(s) : s[k] # "/" THEN <<s>>
    ELSE LET j == CHOOSE k \in 1..Len(s) :
                      s[k] = "/" /\ \A m \in 1..(k - 1) : s[m] # "/"
         IN  <<SubSeq(s, 1, j - 1)>> \o SplitSlash(SubSeq(s, j + 1, Len(s)))

\* a split that keeps the empty segments
PartsKeepEmpty(dir_path) == SplitSlash(dir_path)

\* parts = [p for p in dir_path.split("/") if p]
Parts(dir_path) == SelectSeq(SplitSlash(dir_path), LAMBDA seg : seg # <<>>)

RECURSIVE CurrentPathLeadingSlash(_, _)
\* a walk that joins with "/" from the first part on: "/a", "/a/b"
CurrentPathLeadingSlash(parts, k) ==
    IF k = 0 THEN <<>>
    ELSE CurrentPathLeadingSlash(parts, k - 1) \o <<"/">> \o parts[k]

\* a walk that probes each part on its own, without the parts before it
CurrentPathLastOnly(parts, k) == IF k = 0 THEN <<>> ELSE parts[k]

RECURSIVE CurrentPath(_, _)
\* current_path after k iterations of the loop of ensure_dirs
CurrentPath(parts, k) ==
    IF k = 0 THEN <<>>
    ELSE LET prev == CurrentPath(parts, k - 1)
         IN  IF prev # <<>> THEN prev \o <<"/">> \o parts[k] ELSE parts[k]

\* the directory prefixes a path lies under
DirPrefixes(path) ==
    LET parts == Parts(dirname(path))
    IN  {CurrentPath(parts, k) : k \in 1..Len(parts)}


\* ------------------------------------------------------------------ errors

Exc(type, msg) == [type |-> type, msg |-> msg]

NoExc == Exc("none", <<>>)

\* what the transport can raise while a session is being established
ConnectCauses ==
    {Exc("Exception", <<"Connection failed">>), Exc("TimeoutError", <<"timed out">>)}

\* what the transport does during get_conn: the session is established
\* ("ok"), the call raises ("raise"), pysmb's connect returns False
\* ("false"), pysmb cannot be imported ("noimport")
ConnOutcomes(impl) ==
    {[how |-> "ok", cause |-> NoExc]}
        \cup {[how |-> "raise", cause |-> c] : c \in ConnectCauses}
        \cup (IF impl = "legacy"
              THEN {[how |-> "false", cause |-> NoExc], [how |-> "noimport", cause |-> NoExc]}
              ELSE {})

\* connection.py get_conn: register_session inside try/except Exception
get_conn_pkg(o) ==
    IF o.how = "ok"
    THEN [session |-> TRUE, exc |-> NoExc]
    ELSE [session |-> FALSE,
          exc |-> Exc("ConnectionError",
                      <<"Could not connect to SMB server: ">> \o o.cause.msg)]

\* smb.py get_conn: nothing is caught around SMBConnection(...) and connect
get_conn_legacy(o) ==
    CASE o.how = "ok"       -> [session |-> TRUE, exc |-> NoExc]
      [] o.how = "noimport" -> [session |-> FALSE,
                                exc |-> Exc("ImportError",
                                            <<"SMBConnection implementation not available">>)]
      [] o.how = "false"    -> [session |-> FALSE,
                                exc |-> Exc("ConnectionError",
                                            <<"Could not connect to SMB server">>)]
      [] o.how = "raise"    -> [session |-> FALSE, exc |-> o.cause]

get_conn(impl, o) == IF impl = "pkg" THEN get_conn_pkg(o) ELSE get_conn_legacy(o)

\* error texts of a failed storeFile, word by word
StoreErrors ==
    { <<"Generic", " ", "upload", " ", "error">>,
      <<"Path", " ", "not", " ", "found">>,
      <<"Unable", " ", "to", " ", "open", " ", "file">>,
      <<"No", " ", "such", " ", "file">> }

\* str.lower() on the words that occur in the error texts
LowerWord(w) ==
    CASE w = "Generic" -> "generic"
      [] w = "Path"    -> "path"
      [] w = "Unable"  -> "unable"
      [] w = "No"      -> "no"
      [] OTHER         -> w

\* the text taken as it is, without lower()
LowerForgotten(msg) == msg

Lower(msg) == [k \in 1..Len(msg) |-> LowerWord(msg[k])]

\* needle in msg
Contains(msg, needle) ==
    \E k \in 0..(Len(msg) - Len(needle)) :
        \A m \in 1..Len(needle) : msg[k + m] = needle[m]

\* the message of the ConnectionError store() raises for a storeFile error
StoreFaultMsg(remote, remote_dir, err) ==
    LET msg == Lower(err)
    IN  IF remote_dir # <<>>
           /\ (\/ Contains(msg, <<"unable", " ", "to", " ", "open">>)
               \/ Contains(msg, <<"no", " ", "such", " ", "file">>)
               \/ Contains(msg, <<"path", " ", "not", " ", "found">>))
        THEN <<"Failed to store ">> \o remote \o <<" on share: ">>
                 \o <<"Directory path may not exist. Original error: ">> \o err
        ELSE <<"Failed to store ">> \o remote \o <<" on share: ">> \o err

\* a conflict message that leaves the path out
ConflictMsgNoPath(remote_path) == <<"Remote file already exists">>

\* the message of the FileExistsError of the conflict check
ConflictMsg(remote_path) == <<"Remote file already exists: ">> \o remote_path

\* a finally block whose close error is not caught and replaces the outcome
finally_close_propagates(pending, closeRaises) ==
    IF closeRaises THEN Exc("Exception", <<"close failed">>) ELSE pending

\* the finally block around the upload: conn.close() inside its own
\* try/except, after which the pending exception (if any) propagates
finally_close(pending, closeRaises) == pending

\* ------------------------------------------------------------------ state

VARIABLES
    files,      \* share: the paths at which a complete file exists
    dirs,       \* share: the directories that exist
    uploaded,   \* history: the paths a successful upload has stored
    pc,         \* per invocation: where it stands
    call,       \* per invocation: the arguments it was called with
    conn,       \* per invocation: "none", "open" or "closed"
    idx,        \* per invocation: parts of remote_dir already walked
    log,        \* per invocation: the operations it has issued, in order
    exc,        \* per invocation: the exception pending or raised
    health,     \* per invocation: the HealthResult returned
    env,        \* configuration: the SMB_* variables of the environment
    config,     \* configuration: what load_smb_config_from_env returned
    reg,        \* configuration: what register_session was called with
    resp,       \* per invocation: the HTTP response of the endpoint
    data,       \* share: the content of each file
    local,      \* per invocation: the local file it uploads (the temporary file)
    pool,       \* smbclient: a session is registered in the module's registry
    sess        \* per invocation: which session get_conn handed out

vars ==
    <<files, dirs, uploaded, pc, call, conn, idx, log, exc, health, env, config, reg, resp,
      data, local, pool, sess>>

cfgvars == <<env, config, reg>>

share == <<files, dirs, uploaded, data>>

\* what an action of the remote side leaves alone on the local side
localside == <<resp, local>>

NoCall == [kind |-> "none", impl |-> "none", remote_path |-> <<>>,
           overwrite |-> FALSE, prior |-> FALSE, missing |-> <<>>,
           dir_path |-> <<>>]

\* no local file staged by the endpoint; a direct caller's file is empty
NoLocal == [state |-> "none", content |-> <<>>, removals |-> 0,
            raw |-> <<>>, body |-> <<>>, reads |-> 0, closes |-> 0]

\* no response yet
NoResp == [status_code |-> 0, status |-> "none", detail |-> <<>>, remote_path |-> <<>>,
           smb_connection |-> "none", smb_share_accessible |-> FALSE]

NoHealth == [status |-> "none", smb_connection |-> "none",
             smb_share_accessible |-> FALSE, has_error |-> FALSE, error |-> <<>>]

Healthy == [status |-> "healthy", smb_connection |-> "ok",
            smb_share_accessible |-> TRUE, has_error |-> FALSE, error |-> <<>>]

\* an unhealthy result that still reports the connection as made
UnhealthyConnOk(e) == [status |-> "unhealthy", smb_connection |-> "ok",
                       smb_share_accessible |-> FALSE, has_error |-> TRUE, error |-> e.msg]

Unhealthy(e) == [status |-> "unhealthy", smb_connection |-> "failed",
                 smb_share_accessible |-> FALSE, has_error |-> TRUE, error |-> e.msg]

\* os.environ.get returns None for a variable that is not set
None == "<None>"

NoEnv == [SMB_SERVER_NAME |-> None, SMB_SERVER_IP |-> None, SMB_SHARE_NAME |-> None,
          SMB_USERNAME |-> None, SMB_PASSWORD |-> None,
          SMB_USE_NTLM_V2 |-> None, SMB_AUTH_PROTOCOL |-> None]

NoConfig == [loaded |-> FALSE, use_ntlm_v2 |-> FALSE, auth_protocol |-> None,
             missing |-> <<>>]

NoReg == [called |-> FALSE, auth_protocol |-> None,
          user |-> None, domain |-> None, username |-> <<None>>,
          server |-> None, arg |-> None]

\* one operation issued by an invocation, with its argument and whether it
\* returned (ok) or raised
Ev(op, path, ok) == [op |-> op, path |-> path, ok |-> ok]

Init ==
    /\ files = {}
    /\ dirs = {}
    /\ uploaded = {}
    /\ pc = [p \in Procs |-> "idle"]
    /\ call = [p \in Procs |-> NoCall]
    /\ conn = [p \in Procs |-> "none"]
    /\ idx = [p \in Procs |-> 0]
    /\ log = [p \in Procs |-> <<>>]
    /\ exc = [p \in Procs |-> NoExc]
    /\ health = [p \in Procs |-> NoHealth]
    /\ env = NoEnv
    /\ config = NoConfig
    /\ reg = NoReg
    /\ resp = [p \in Procs |-> NoResp]
    /\ data = <<>>
    /\ local = [p \in Procs |-> NoLocal]
    /\ pool = FALSE
    /\ sess = [p \in Procs |-> "none"]

\* ------------------------------------------------------------------ upload

\* smb_upload_file: remote_dir = os.path.dirname(remote_path), set when the
\* call starts; for a call of ensure_dirs itself, its dir_path argument
remote_dir(p) == call[p].dir_path

parts(p) == Parts(remote_dir(p))

\* a failed get_conn that is tried again
conn_fail_exit_retries == "get_conn"

\* get_conn moved inside the try/finally: its failure runs the finally block
conn_fail_exit_in_try == "close"

\* get_conn is called before the try/finally of smb_upload_file: when it
\* raises, the exception leaves the call at once
conn_fail_exit == "raised"

\* close only at the end of the body, without finally: an exception skips it
try_exit_no_finally(pending) == IF pending = NoExc THEN "close" ELSE "raised"

\* the body of the try/finally of smb_upload_file ends, normally or with
\* the exception `pending`: the finally block runs next
try_exit(pending) == "close"

\* a conflict check that ignores the overwrite flag
AfterEnsureAlwaysProbe(p) == "getAttributes"

\* after ensure_dirs: "if not overwrite and remote_exists(...)"
AfterEnsure(p) == IF ~call[p].overwrite THEN "getAttributes" ELSE "store"

\* ensure_dirs returns: to smb_upload_file, which goes on with the conflict
\* check, or to the caller that called ensure_dirs itself
EnsureReturn(p) == IF call[p].kind = "ensure_dirs" THEN "returned" ELSE AfterEnsure(p)

\* an upload that goes on without walking the parts of remote_dir
EnsureNextSkipsWalk(p, k) == IF ~call[p].overwrite THEN "getAttributes" ELSE "store"

\* the loop of ensure_dirs after k parts: next part, or ensure_dirs returns
EnsureNext(p, k) ==
    IF remote_dir(p) # <<>> /\ k < Len(parts(p)) THEN "listPath" ELSE EnsureReturn(p)

\* a creation error that leaves ensure_dirs and ends the body of the try
AfterCreateRaises(p, ok) == IF ok THEN EnsureNext(p, idx[p] + 1) ELSE "close"

\* ensure_dirs after createDirectory: its error is caught and ignored, the
\* loop goes on with the next part either way
AfterCreate(p, ok) == EnsureNext(p, idx[p] + 1)

\* a probe whose connection error leaves check_smb_health
probe_fail_exit_raises == "raised"

\* check_smb_health: get_conn is inside the try, "except Exception" returns
\* the unhealthy result
probe_fail_exit == "returned"

\* a caller invokes smb_upload_file
UploadCall(p, impl, path, ow) ==
    /\ pc[p] = "idle"
    /\ pc' = [pc EXCEPT ![p] = "get_conn"]
    /\ call' = [call EXCEPT ![p] = [kind |-> "upload", impl |-> impl, remote_path |-> path,
                                    overwrite |-> ow, prior |-> path \in uploaded,
                                    missing |-> <<>>, dir_path |-> dirname(path)]]
    /\ UNCHANGED <<share, conn, idx, log, exc, health>>
    /\ UNCHANGED <<localside, pool, sess>>

\* the session a successful get_conn hands out: SMBConnection(...) of smb.py
\* is a new object of the invocation; smbclient.register_session of
\* connection.py hands out the session kept in the registry of the module
\* when there is one for the server
SessionsHandedOut(impl, registered) ==
    IF impl = "pkg" /\ registered THEN {"shared"} ELSE {"own"}

\* get_conn(...), from smb_upload_file or from check_smb_health
GetConn(p) ==
    /\ pc[p] = "get_conn"
    /\ \E o \in ConnOutcomes(call[p].impl) :
         LET r == get_conn(call[p].impl, o)
         IN  /\ log' = [log EXCEPT ![p] = Append(@, Ev("get_conn", <<>>, r.session))]
             /\ IF r.session
                THEN /\ conn' = [conn EXCEPT ![p] = "open"]
                     /\ pc' = [pc EXCEPT ![p] =
                                 IF call[p].kind = "upload" THEN EnsureNext(p, 0) ELSE "listRoot"]
                     /\ \E s \in SessionsHandedOut(call[p].impl, pool) :
                            sess' = [sess EXCEPT ![p] = s]
                     /\ pool' = (pool \/ call[p].impl = "pkg")
                     /\ UNCHANGED <<exc, health>>
                ELSE /\ UNCHANGED <<conn, pool, sess>>
                     /\ IF call[p].kind = "upload"
                        THEN /\ pc' = [pc EXCEPT ![p] = conn_fail_exit]
                             /\ exc' = [exc EXCEPT ![p] = r.exc]
                             /\ UNCHANGED health
                        ELSE /\ pc' = [pc EXCEPT ![p] = probe_fail_exit]
                             /\ health' = [health EXCEPT ![p] = Unhealthy(r.exc)]
                             /\ UNCHANGED exc
    /\ UNCHANGED <<share, call, idx>>
    /\ UNCHANGED localside

\* a walk that requests the creation whatever the probe answered
AfterListPathAlwaysCreates(p, ok) == "createDirectory"

\* a walk that goes on without a creation after a failed probe
AfterListPathNeverCreates(p, ok) == EnsureNext(p, idx[p] + 1)

\* ensure_dirs: "try: conn.listPath(...) except Exception: createDirectory":
\* the creation is attempted only when the probe raised
AfterListPath(p, ok) == IF ok THEN EnsureNext(p, idx[p] + 1) ELSE "createDirectory"

\* ensure_dirs: conn.listPath(share_name, current_path)
ListPath(p) ==
    /\ pc[p] = "listPath"
    /\ LET cur == CurrentPath(parts(p), idx[p] + 1)
       IN  \E ok \in (IF cur \in dirs THEN BOOLEAN ELSE {FALSE}) :
             /\ log' = [log EXCEPT ![p] = Append(@, Ev("listPath", cur, ok))]
             /\ pc' = [pc EXCEPT ![p] = AfterListPath(p, ok)]
             /\ idx' = [idx EXCEPT ![p] =
                          IF AfterListPath(p, ok) = "createDirectory" THEN @ ELSE @ + 1]
    /\ UNCHANGED <<share, call, conn, exc, health>>
    /\ UNCHANGED <<localside, pool, sess>>

\* a creation whose error leaves ensure_dirs
create_error_raised(ok) ==
    IF ok THEN NoExc ELSE Exc("OperationFailure", <<"Failed to create directory">>)

\* ensure_dirs: "except Exception as create_error: ... pass"
create_error(ok) == NoExc

\* ensure_dirs: conn.createDirectory(share_name, current_path), errors ignored
CreateDirectory(p) ==
    /\ pc[p] = "createDirectory"
    /\ LET cur    == CurrentPath(parts(p), idx[p] + 1)
           parent == CurrentPath(parts(p), idx[p])
       IN  \E ok \in (IF cur \notin dirs /\ (parent = <<>> \/ parent \in dirs)
                       THEN BOOLEAN ELSE {FALSE}) :
             /\ log' = [log EXCEPT ![p] = Append(@, Ev("createDirectory", cur, ok))]
             /\ dirs' = IF ok THEN dirs \cup {cur} ELSE dirs
             /\ exc' = [exc EXCEPT ![p] = create_error(ok)]
             /\ pc' = [pc EXCEPT ![p] =
                         IF create_error(ok) = NoExc THEN AfterCreate(p, ok)
                         ELSE IF call[p].kind = "ensure_dirs" THEN "raised"
                         ELSE try_exit(create_error(ok))]
    /\ idx' = [idx EXCEPT ![p] = @ + 1]
    /\ UNCHANGED <<files, uploaded, call, conn, health>>
    /\ UNCHANGED <<localside, pool, sess, data>>

\* the directory paths ensure_dirs is called with: none, the root alone,
\* one and two segments, and two segments with a leading, a doubled and a
\* trailing slash
DirPaths ==
    { <<>>, <<"/">>, <<"a">>, <<"a", "/", "b">>,
      <<"/", "a", "/", "/", "b", "/">> }

\* every prefix of the directory path is a directory of the share
Provisioned(dir_path) ==
    \A k \in 1..Len(Parts(dir_path)) : CurrentPath(Parts(dir_path), k) \in dirs

\* a caller invokes ensure_dirs(conn, share_name, dir_path) on a connection
\* it holds
EnsureDirsCall(p, impl, dir_path) ==
    /\ pc[p] = "idle"
    /\ pc' = [pc EXCEPT ![p] = "ensure_dirs"]
    /\ call' = [call EXCEPT ![p] = [NoCall EXCEPT !.kind = "ensure_dirs", !.impl = impl,
                                                  !.dir_path = dir_path,
                                                  !.prior = Provisioned(dir_path)]]
    /\ conn' = [conn EXCEPT ![p] = "open"]
    /\ UNCHANGED <<share, idx, log, exc, health>>
    /\ UNCHANGED <<localside, pool, sess>>

\* ensure_dirs: "if not dir_path: return", then the split and the loop
EnsureDirsEnter(p) ==
    /\ pc[p] = "ensure_dirs"
    /\ pc' = [pc EXCEPT ![p] = EnsureNext(p, 0)]
    /\ UNCHANGED <<share, call, conn, idx, log, exc, health>>
    /\ UNCHANGED <<localside, pool, sess>>

\* a remote_exists that reports every file as absent
remote_exists_never(probeOk) == FALSE

\* remote_exists: conn.getAttributes(share_name, path); any error is False
remote_exists(probeOk) == probeOk

\* a remote_exists that lets the error of the probe leave it
remote_exists_error_raised(probeOk) ==
    IF probeOk THEN NoExc ELSE Exc("OperationFailure", <<"Failed to get attributes">>)

\* remote_exists: "except Exception: return False": whatever getAttributes
\* raises stays inside remote_exists
remote_exists_error(probeOk) == NoExc

\* the conflict check of smb_upload_file
GetAttributes(p) ==
    /\ pc[p] = "getAttributes"
    /\ LET path == call[p].remote_path
       IN  \E ok \in (IF path \in files \cup dirs THEN BOOLEAN ELSE {FALSE}) :
             /\ log' = [log EXCEPT ![p] = Append(@, Ev("getAttributes", path, ok))]
             /\ IF remote_exists_error(ok) # NoExc
                THEN /\ exc' = [exc EXCEPT ![p] = remote_exists_error(ok)]
                     /\ pc' = [pc EXCEPT ![p] = try_exit(exc'[p])]
                ELSE IF remote_exists(ok)
                THEN /\ exc' = [exc EXCEPT ![p] = Exc("FileExistsError", ConflictMsg(path))]
                     /\ pc' = [pc EXCEPT ![p] = try_exit(exc'[p])]
                ELSE /\ pc' = [pc EXCEPT ![p] = "store"]
                     /\ UNCHANGED exc
    /\ UNCHANGED <<share, call, conn, idx, health>>
    /\ UNCHANGED <<localside, pool, sess>>

\* conn.storeFile(share_name, remote, fh): what is written is what fh holds
storeFile(content) == content

\* a store that refuses to replace a file unless overwrite was asked for
store_allowed_checks(overwrite, present) == overwrite \/ ~present

\* store() has no check of its own: it is given no overwrite flag, and
\* conn.storeFile writes the file whether or not the path is there by now
store_allowed(overwrite, present) == TRUE

\* store(): open(local, "rb"), then conn.storeFile inside try/except Exception
Store(p) ==
    /\ pc[p] = "store"
    /\ LET path == call[p].remote_path
       IN  \/ \* the local file cannot be opened: the OSError leaves store() as it is
              /\ log' = [log EXCEPT ![p] = Append(@, Ev("open", <<>>, FALSE))]
              /\ exc' = [exc EXCEPT ![p] =
                           Exc("FileNotFoundError", <<"No such file or directory">>)]
              /\ UNCHANGED share
           \/ \* storeFile succeeds
              /\ store_allowed(call[p].overwrite, path \in files)
              /\ log' = [log EXCEPT ![p] =
                           @ \o <<Ev("open", <<>>, TRUE), Ev("storeFile", path, TRUE)>>]
              /\ files' = files \cup {path}
              /\ uploaded' = uploaded \cup {path}
              /\ dirs' = dirs \cup DirPrefixes(path)
              /\ data' = [f \in files \cup {path} |->
                             IF f = path THEN storeFile(local[p].content) ELSE data[f]]
              /\ UNCHANGED exc
           \/ \* storeFile raises: no complete file is added to the share
              \E err \in StoreErrors :
                /\ log' = [log EXCEPT ![p] =
                             @ \o <<Ev("open", <<>>, TRUE), Ev("storeFile", path, FALSE)>>]
                /\ exc' = [exc EXCEPT ![p] =
                             Exc("ConnectionError", StoreFaultMsg(path, remote_dir(p), err))]
                /\ UNCHANGED share
    /\ pc' = [pc EXCEPT ![p] = try_exit(exc'[p])]
    /\ UNCHANGED <<call, conn, idx, health>>
    /\ UNCHANGED <<localside, pool, sess>>

\* finally: conn.close(), whose own error is logged and dropped
Close(p) ==
    /\ pc[p] = "close"
    /\ \E closeRaises \in BOOLEAN :
         LET out == finally_close(exc[p], closeRaises)
         IN  /\ exc' = [exc EXCEPT ![p] = out]
             /\ pc' = [pc EXCEPT ![p] = IF out = NoExc THEN "returned" ELSE "raised"]
             /\ log' = [log EXCEPT ![p] = Append(@, Ev("close", <<>>, ~closeRaises))]
    /\ conn' = [conn EXCEPT ![p] = "closed"]
    /\ UNCHANGED <<share, call, idx, health>>
    /\ UNCHANGED <<localside, pool, sess>>

\* ------------------------------------------------------------------ health probe

ListErrors == {Exc("Exception", <<"Access denied">>)}

\* a caller invokes check_smb_health
HealthCall(p, impl) ==
    /\ pc[p] = "idle"
    /\ pc' = [pc EXCEPT ![p] = "get_conn"]
    /\ call' = [call EXCEPT ![p] = [NoCall EXCEPT !.kind = "health", !.impl = impl]]
    /\ UNCHANGED <<share, conn, idx, log, exc, health>>
    /\ UNCHANGED <<localside, pool, sess>>

\* after the listing of the share root: smb.py closes the session in a
\* finally block, connection.py returns without any release
AfterListRoot(impl) == IF impl = "legacy" THEN "close" ELSE "returned"

\* a probe that tests the share by creating a marker directory
ListRootWritesMarker(p) ==
    /\ pc[p] = "listRoot"
    /\ health' = [health EXCEPT ![p] = Healthy]
    /\ log' = [log EXCEPT ![p] = Append(@, Ev("createDirectory", <<"h">>, TRUE))]
    /\ dirs' = dirs \cup {<<"h">>}
    /\ pc' = [pc EXCEPT ![p] = AfterListRoot(call[p].impl)]
    /\ UNCHANGED <<files, uploaded, call, conn, idx, exc>>
    /\ UNCHANGED <<localside, pool, sess, data>>

\* smbclient.listdir(unc_path) / conn.listPath(share_name, "/")
ListRoot(p) ==
    /\ pc[p] = "listRoot"
    /\ \/ /\ health' = [health EXCEPT ![p] = Healthy]
          /\ log' = [log EXCEPT ![p] = Append(@, Ev("listRoot", <<"/">>, TRUE))]
       \/ \E e \in ListErrors :
            /\ health' = [health EXCEPT ![p] = Unhealthy(e)]
            /\ log' = [log EXCEPT ![p] = Append(@, Ev("listRoot", <<"/">>, FALSE))]
    /\ pc' = [pc EXCEPT ![p] = AfterListRoot(call[p].impl)]
    /\ UNCHANGED <<share, call, conn, idx, exc>>
    /\ UNCHANGED <<localside, pool, sess>>

\* ------------------------------------------------------------------ endpoints

Done(p) == pc[p] \in {"returned", "raised"}

\* the temporary file of the request is there and no removal was attempted
IsStaged(p) == local[p].state = "staged"

\* the environments a request to /health finds
EndpointEnvs ==
    [SMB_SERVER_NAME : {None, "x"}, SMB_SERVER_IP : {None, "x"},
     SMB_SHARE_NAME : {"", "x"}, SMB_USERNAME : {None, "x"}, SMB_PASSWORD : {"", "x"}]

\* /health: missing = [k for k, v in (...) if not v]
EndpointMissing(e) ==
    SelectSeq(<<"SMB_SERVER_NAME", "SMB_SERVER_IP", "SMB_SHARE_NAME",
                "SMB_USERNAME", "SMB_PASSWORD">>,
              LAMBDA k : e[k] \in {None, ""})

RECURSIVE JoinComma(_)
\* ', '.join(names)
JoinComma(names) ==
    IF Len(names) <= 1 THEN names
    ELSE <<Head(names), ", ">> \o JoinComma(Tail(names))

\* /health with variables missing: 503 without a call of check_smb_health
NotConfigured(missing) ==
    [status_code |-> 503, status |-> "unhealthy",
     detail |-> <<"Missing SMB configuration environment variables: ">> \o JoinComma(missing),
     remote_path |-> <<>>, smb_connection |-> "not_configured",
     smb_share_accessible |-> FALSE]

\* a /health that answers 200 whatever the probe returned
health_response_always_200(h) ==
    [status_code |-> 200, status |-> h.status, detail |-> h.error, remote_path |-> <<>>,
     smb_connection |-> h.smb_connection, smb_share_accessible |-> h.smb_share_accessible]

\* /health: the result of the probe as content, 200 when healthy, else 503
health_response(h) ==
    [status_code |-> IF h.status = "healthy" THEN 200 ELSE 503,
     status |-> h.status, detail |-> h.error, remote_path |-> <<>>,
     smb_connection |-> h.smb_connection, smb_share_accessible |-> h.smb_share_accessible]

\* an /upload without the except clause for FileExistsError
upload_response_no_409(e, remote_path) ==
    IF e = NoExc
    THEN [NoResp EXCEPT !.status_code = 200, !.status = "ok", !.remote_path = remote_path]
    ELSE [NoResp EXCEPT !.status_code = 500, !.status = "error", !.detail = e.msg]

\* /upload: {"status": "ok", "remote_path": ...} after a return; 409 for
\* FileExistsError, 500 for any other Exception, detail = str(e)
upload_response(e, remote_path) ==
    IF e = NoExc
    THEN [NoResp EXCEPT !.status_code = 200, !.status = "ok", !.remote_path = remote_path]
    ELSE IF e.type = "FileExistsError"
         THEN [NoResp EXCEPT !.status_code = 409, !.status = "error", !.detail = e.msg]
         ELSE [NoResp EXCEPT !.status_code = 500, !.status = "error", !.detail = e.msg]

\* a request to /health: variables missing, or check_smb_health is called
HealthRequest(p, impl, e) ==
    IF EndpointMissing(e) # <<>>
    THEN /\ pc[p] = "idle"
         /\ pc' = [pc EXCEPT ![p] = "returned"]
         /\ call' = [call EXCEPT ![p] = [NoCall EXCEPT !.kind = "not_configured",
                                                       !.impl = impl,
                                                       !.missing = EndpointMissing(e)]]
         /\ resp' = [resp EXCEPT ![p] = NotConfigured(EndpointMissing(e))]
         /\ UNCHANGED <<share, conn, idx, log, exc, health, local, pool, sess>>
    ELSE HealthCall(p, impl)

\* the remote_path values a client submits
RawPaths == { <<"/">>, <<"f">>, <<"/", "/", "a", "/", "f">> }

\* the bodies a client uploads: nothing, two full chunks, and two full
\* chunks with a shorter third one
Bodies ==
    { <<>>, [k \in 1..(2 * ChunkSize) |-> k], [k \in 1..(2 * ChunkSize + 1) |-> k] }

RECURSIVE LStripSlash(_)
\* str.lstrip("/")
LStripSlash(path) ==
    IF path # <<>> /\ Head(path) = "/" THEN LStripSlash(Tail(path)) ELSE path

\* a normalization that removes one leading slash
normalize_one_slash(raw) == IF raw # <<>> /\ Head(raw) = "/" THEN Tail(raw) ELSE raw

\* /upload: if not remote_path or remote_path.startswith("/"): lstrip("/")
normalize(raw) == IF raw = <<>> \/ Head(raw) = "/" THEN LStripSlash(raw) ELSE raw

\* a copy loop that stops at the first chunk shorter than the chunk size
\* without writing it
save_upload_to_temp_drops_tail(body) ==
    SubSeq(body, 1, (Len(body) \div ChunkSize) * ChunkSize)

RECURSIVE CopyChunks(_, _)
\* while True: chunk = read(64 KiB); if not chunk: break; dest.write(chunk)
CopyChunks(rest, dest) ==
    LET n     == IF Len(rest) < ChunkSize THEN Len(rest) ELSE ChunkSize
        chunk == SubSeq(rest, 1, n)
    IN  IF chunk = <<>> THEN dest
        ELSE CopyChunks(SubSeq(rest, n + 1, Len(rest)), dest \o chunk)

\* save_upload_to_temp: the content of the temporary file
save_upload_to_temp(body) == CopyChunks(body, <<>>)

\* a loop that takes a chunk shorter than the chunk size for the last one
\* and does not read again
ReadCallsStopOnShort(rest) == Len(rest) \div ChunkSize + 1

RECURSIVE ReadCalls(_)
\* save_upload_to_temp: the calls of upload_file.read made by the loop, the
\* one that returns the empty chunk included
ReadCalls(rest) ==
    LET n == IF Len(rest) < ChunkSize THEN Len(rest) ELSE ChunkSize
    IN  IF n = 0 THEN 1 ELSE 1 + ReadCalls(SubSeq(rest, n + 1, Len(rest)))

\* /upload with variables missing: HTTPException(500) naming them
upload_rejected(missing) ==
    [NoResp EXCEPT !.status_code = 500, !.status = "error",
                   !.detail = <<"Missing SMB configuration environment variables: ">>
                                  \o JoinComma(missing)]

\* an /upload that stages the temporary file before it looks at the variables
local_when_rejected_staged(raw, body) ==
    [state |-> "staged", content |-> save_upload_to_temp(body), removals |-> 0,
     raw |-> raw, body |-> body, reads |-> ReadCalls(body), closes |-> 1]

\* /upload: the HTTPException for missing variables is raised before
\* save_upload_to_temp is called
local_when_rejected(raw, body) == NoLocal

\* a request to /upload up to the call of smb_upload_file in the executor
UploadRequest(p, impl, e, raw, ow, body) ==
    /\ pc[p] = "idle"
    /\ IF EndpointMissing(e) # <<>>
       THEN /\ pc' = [pc EXCEPT ![p] = "raised"]
            /\ call' = [call EXCEPT ![p] = [NoCall EXCEPT !.kind = "rejected",
                                                          !.impl = impl,
                                                          !.missing = EndpointMissing(e)]]
            /\ resp' = [resp EXCEPT ![p] = upload_rejected(EndpointMissing(e))]
            /\ local' = [local EXCEPT ![p] = local_when_rejected(raw, body)]
            /\ UNCHANGED exc
       ELSE \/ \* the temporary file is written, the core is called
               /\ pc' = [pc EXCEPT ![p] = "get_conn"]
               /\ call' = [call EXCEPT ![p] =
                             [kind |-> "upload", impl |-> impl,
                              remote_path |-> normalize(raw), overwrite |-> ow,
                              prior |-> normalize(raw) \in uploaded, missing |-> <<>>,
                              dir_path |-> dirname(normalize(raw))]]
               /\ local' = [local EXCEPT ![p] =
                              [state |-> "staged", content |-> save_upload_to_temp(body),
                               removals |-> 0, raw |-> raw, body |-> body,
                               reads |-> ReadCalls(body), closes |-> 1]]
               /\ UNCHANGED <<resp, exc>>
            \/ \* save_upload_to_temp raises at its first read or write: the
               \* error leaves the handler before "await upload_file.close()",
               \* and the file made by mkstemp stays
               /\ pc' = [pc EXCEPT ![p] = "raised"]
               /\ call' = [call EXCEPT ![p] = [NoCall EXCEPT !.kind = "unstaged",
                                                             !.impl = impl]]
               /\ exc' = [exc EXCEPT ![p] = Exc("OSError", <<"No space left on device">>)]
               /\ local' = [local EXCEPT ![p] =
                              [NoLocal EXCEPT !.state = "kept", !.raw = raw, !.body = body]]
               /\ UNCHANGED resp
    /\ UNCHANGED <<share, conn, idx, log, health, pool, sess>>

\* a removal error that replaces the outcome of the request
finally_remove_propagates(pending, removeRaises) ==
    IF removeRaises THEN Exc("OSError", <<"Permission denied">>) ELSE pending

\* finally: try: os.remove(tmp_path) except Exception: pass
finally_remove(pending, removeRaises) == pending

\* /upload: the finally block after the core returned or raised
RemoveTemp(p) ==
    /\ Done(p)
    /\ IsStaged(p)
    /\ \E removeRaises \in BOOLEAN :
         /\ local' = [local EXCEPT ![p].state = IF removeRaises THEN "kept" ELSE "removed",
                                   ![p].removals = @ + 1]
         /\ exc' = [exc EXCEPT ![p] = finally_remove(exc[p], removeRaises)]
    /\ UNCHANGED <<share, pc, call, conn, idx, log, health, resp, pool, sess>>

\* the endpoint turns what the core call returned or raised into the response
Respond(p) ==
    /\ Done(p)
    /\ resp[p] = NoResp
    /\ ~IsStaged(p)
    /\ call[p].kind \in {"upload", "health"}
    /\ resp' = [resp EXCEPT ![p] =
                  IF call[p].kind = "upload"
                  THEN upload_response(exc[p], call[p].remote_path)
                  ELSE health_response(health[p])]
    /\ UNCHANGED <<share, pc, call, conn, idx, log, exc, health, local, pool, sess>>

\* ------------------------------------------------------------------ configuration

\* the values a required variable is given: not set, empty, or a value
FieldValues == {None, "", "x"}

\* the values of SMB_USE_NTLM_V2
NtlmValues == {None, "true", "Yes", "1", "false", "0"}

\* the values of SMB_AUTH_PROTOCOL
AuthValues == {None, "", "negotiate", "ntlm", "NTLM", "kerberos", "Kerberos",
               "invalid_protocol"}

\* the values of SMB_SERVER_IP: not set, empty, or an address
AddressValues == {None, "", "10.0.0.1"}

Envs ==
    [SMB_SERVER_NAME : FieldValues, SMB_SERVER_IP : AddressValues,
     SMB_SHARE_NAME : FieldValues, SMB_USERNAME : FieldValues,
     SMB_PASSWORD : FieldValues, SMB_USE_NTLM_V2 : NtlmValues,
     SMB_AUTH_PROTOCOL : AuthValues]

\* os.environ.get(name, default)
EnvGet(v, default) == IF v = None THEN default ELSE v

\* str.lower() on the values above
LowerStr(v) ==
    CASE v = "Yes" -> "yes"
      [] v = "NTLM" -> "ntlm"
      [] v = "Kerberos" -> "kerberos"
      [] OTHER -> v

\* "not v" for a value that is None or a string
Falsy(v) == v \in {None, ""}

\* use_ntlm_v2 = os.environ.get("SMB_USE_NTLM_V2", "true").lower() in (...)
UseNtlmV2(e) == LowerStr(EnvGet(e.SMB_USE_NTLM_V2, "true")) \in {"1", "true", "yes"}

\* the legacy mapping of the boolean to a mode
LegacyMode(use_ntlm_v2) == IF use_ntlm_v2 THEN "ntlm" ELSE "negotiate"

\* the auth_protocol of load_smb_config_from_env
ConfigAuthProtocol(e) ==
    LET given == LowerStr(EnvGet(e.SMB_AUTH_PROTOCOL, ""))
        kept  == IF given \notin {"negotiate", "ntlm", "kerberos", ""} THEN "" ELSE given
    IN  IF Falsy(kept) THEN LegacyMode(UseNtlmV2(e)) ELSE kept

\* user name and password required whatever the mode
RequiredFieldsAlways(e, auth_protocol) ==
    <<"SMB_SERVER_NAME", "SMB_SERVER_IP", "SMB_SHARE_NAME", "SMB_USERNAME", "SMB_PASSWORD">>

\* required_fields of load_smb_config_from_env, by name
RequiredFields(e, auth_protocol) ==
    <<"SMB_SERVER_NAME", "SMB_SERVER_IP", "SMB_SHARE_NAME">>
        \o (IF auth_protocol # "kerberos" THEN <<"SMB_USERNAME", "SMB_PASSWORD">> ELSE <<>>)

\* missing = [k for k, v in required_fields if not v]
Missing(e, auth_protocol) ==
    SelectSeq(RequiredFields(e, auth_protocol), LAMBDA k : Falsy(e[k]))

\* load_smb_config_from_env()
LoadConfig ==
    /\ ~config.loaded
    /\ config' = [loaded |-> TRUE, use_ntlm_v2 |-> UseNtlmV2(env),
                  auth_protocol |-> ConfigAuthProtocol(env),
                  missing |-> Missing(env, ConfigAuthProtocol(env))]
    /\ UNCHANGED <<env, reg>>

\* the auth_protocol arguments get_conn is called with: none (as
\* smb_upload_file calls it), the mode of the loaded configuration, or a
\* string of the caller
AuthArgs == {None, "", "negotiate", "ntlm", "kerberos", "invalid_protocol"}

\* get_conn: "if auth_protocol is None: ... 'ntlm' if use_ntlm_v2 else 'negotiate'"
EffectiveAuth(auth_protocol, use_ntlm_v2) ==
    IF auth_protocol = None THEN LegacyMode(use_ntlm_v2) ELSE auth_protocol

\* the domain get_conn is called with: the empty default, or a name
Domains == {"", "D"}

\* an identity that carries the domain whenever there is one
auth_username_domain_only(username, domain, auth_protocol) ==
    IF ~Falsy(domain) /\ auth_protocol # "kerberos"
    THEN <<domain, "\\", username>> ELSE <<username>>

\* get_conn: "if username and domain and auth_protocol != 'kerberos':
\* auth_username = f'{domain}\\{username}' else: auth_username = username"
auth_username(username, domain, auth_protocol) ==
    IF ~Falsy(username) /\ ~Falsy(domain) /\ auth_protocol # "kerberos"
    THEN <<domain, "\\", username>> ELSE <<username>>

\* a choice of address that prefers the name
server_prefers_name(server_ip, server_name) ==
    IF Falsy(server_name) THEN server_ip ELSE server_name

\* get_conn: server = server_ip or server_name
server(server_ip, server_name) ==
    IF Falsy(server_ip) THEN server_name ELSE server_ip

\* get_conn(username, ..., domain, ..., use_ntlm_v2, auth_protocol) reaches
\* smbclient.register_session; the user name, the server name and the
\* address are the ones of the environment
RegisterSession(arg, domain) ==
    /\ config.loaded
    /\ ~reg.called
    /\ LET mode == EffectiveAuth(arg, config.use_ntlm_v2)
       IN  reg' = [called |-> TRUE, auth_protocol |-> mode,
                   user |-> env.SMB_USERNAME, domain |-> domain,
                   username |-> auth_username(env.SMB_USERNAME, domain, mode),
                   server |-> server(env.SMB_SERVER_IP, env.SMB_SERVER_NAME),
                   arg |-> arg]
    /\ UNCHANGED <<env, config>>

InitConfig ==
    /\ files = {}
    /\ dirs = {}
    /\ uploaded = {}
    /\ pc = [p \in Procs |-> "idle"]
    /\ call = [p \in Procs |-> NoCall]
    /\ conn = [p \in Procs |-> "none"]
    /\ idx = [p \in Procs |-> 0]
    /\ log = [p \in Procs |-> <<>>]
    /\ exc = [p \in Procs |-> NoExc]
    /\ health = [p \in Procs |-> NoHealth]
    /\ env \in Envs
    /\ config = NoConfig
    /\ reg = NoReg
    /\ resp = [p \in Procs |-> NoResp]
    /\ data = <<>>
    /\ local = [p \in Procs |-> NoLocal]
    /\ pool = FALSE
    /\ sess = [p \in Procs |-> "none"]

NextConfig ==
    /\ \/ LoadConfig
       \/ \E arg \in AuthArgs \cup {config.auth_protocol}, domain \in Domains :
            RegisterSession(arg, domain)
    /\ UNCHANGED <<share, pc, call, conn, idx, log, exc, health, resp, local, pool, sess>>

SpecConfig == InitConfig /\ [][NextConfig]_vars

\* ------------------------------------------------------------------ specification

\* the caller has the result; the slot is free for the next invocation
Finish(p) ==
    /\ Done(p)
    /\ pc' = [pc EXCEPT ![p] = "idle"]
    /\ call' = [call EXCEPT ![p] = NoCall]
    /\ conn' = [conn EXCEPT ![p] = "none"]
    /\ idx' = [idx EXCEPT ![p] = 0]
    /\ log' = [log EXCEPT ![p] = <<>>]
    /\ exc' = [exc EXCEPT ![p] = NoExc]
    /\ health' = [health EXCEPT ![p] = NoHealth]
    /\ resp' = [resp EXCEPT ![p] = NoResp]
    /\ local' = [local EXCEPT ![p] = NoLocal]
    /\ sess' = [sess EXCEPT ![p] = "none"]
    /\ UNCHANGED <<share, pool>>

Impls == {"pkg", "legacy"}

\* one step of smb_upload_file or check_smb_health, or the caller taking
\* the result
StepCore(p) ==
    \/ GetConn(p)
    \/ ListPath(p)
    \/ CreateDirectory(p)
    \/ GetAttributes(p)
    \/ Store(p)
    \/ Close(p)
    \/ ListRoot(p)
    \/ Finish(p)

Step(p) ==
    \/ StepCore(p)
    \/ Respond(p)

\* no invocation is in progress
AllIdle == \A q \in Procs : pc[q] = "idle"

\* invocations one after the other all run in the first slot
Slot == {p \in Procs : \A q \in Procs : p <= q}

\* invocations one after the other: a call starts when none is in progress
Next ==
    /\ \E p \in Slot :
        \/ /\ AllIdle
           /\ \E impl \in Impls, path \in RemotePaths, ow \in BOOLEAN :
                 UploadCall(p, impl, path, ow)
        \/ /\ AllIdle
           /\ \E impl \in Impls, e \in EndpointEnvs : HealthRequest(p, impl, e)
        \/ Step(p)
    /\ UNCHANGED cfgvars

Spec == Init /\ [][Next]_vars

\* the service: requests to /upload and /health, one after the other
NextEndpoint ==
    /\ \E p \in Slot :
        \/ /\ AllIdle
           /\ \E impl \in Impls, e \in EndpointEnvs, raw \in RawPaths,
                 ow \in BOOLEAN, body \in Bodies :
                 UploadRequest(p, impl, e, raw, ow, body)
        \/ /\ AllIdle
           /\ \E impl \in Impls, e \in EndpointEnvs : HealthRequest(p, impl, e)
        \/ Step(p)
        \/ RemoveTemp(p)
    /\ UNCHANGED cfgvars

SpecEndpoint == Init /\ [][NextEndpoint]_vars

\* the remote path the concurrent uploads are given, all with
\* overwrite=False: one directory, one file
ConcPaths == {NestedPath(1)}

\* the invocations in progress
InFlight == {q \in Procs : pc[q] # "idle"}

\* the executor runs smb_upload_file and check_smb_health of several requests
\* at once: a call starts while another is in progress, and their steps
\* interleave in any order
NextConc ==
    /\ \E p \in Procs :
        \/ /\ Cardinality(InFlight) <= 1
           /\ \E impl \in Impls, path \in ConcPaths :
                 UploadCall(p, impl, path, FALSE)
        \/ /\ Cardinality(InFlight) <= 1
           /\ \E impl \in Impls : HealthCall(p, impl)
        \/ StepCore(p)
    /\ UNCHANGED cfgvars

SpecConc == Init /\ [][NextConc]_vars

\* "a/b/c/f": a file below three directories
ScenarioPath == <<"a", "/", "b", "/", "c", "/", "f">>

\* uploads of the file below three directories, overwrite=False, each to a
\* share that holds no file and no directory when the call is made
NextScenario ==
    /\ \E p \in Slot :
        \/ /\ AllIdle
           /\ files = {} /\ dirs = {}
           /\ \E impl \in Impls : UploadCall(p, impl, ScenarioPath, FALSE)
        \/ GetConn(p)
        \/ ListPath(p)
        \/ CreateDirectory(p)
        \/ GetAttributes(p)
        \/ Store(p)
        \/ Close(p)
        \/ Finish(p)
    /\ UNCHANGED cfgvars

SpecScenario == Init /\ [][NextScenario]_vars

\* calls of ensure_dirs one after the other, on a share that keeps the
\* directories of the earlier calls
NextWalk ==
    /\ \E p \in Slot :
        \/ /\ AllIdle
           /\ \E impl \in Impls, dir_path \in DirPaths : EnsureDirsCall(p, impl, dir_path)
        \/ EnsureDirsEnter(p)
        \/ ListPath(p)
        \/ CreateDirectory(p)
        \/ Finish(p)
    /\ UNCHANGED cfgvars

SpecWalk == Init /\ [][NextWalk]_vars

\* ------------------------------------------------------------------ reading the log

IsUpload(p) == call[p].kind = "upload"

IsHealth(p) == call[p].kind = "health"

HasEv(p, op) == \E k \in DOMAIN log[p] : log[p][k].op = op

HasEvOk(p, op, ok) == \E k \in DOMAIN log[p] : log[p][k].op = op /\ log[p][k].ok = ok

Count(p, op) == Cardinality({k \in DOMAIN log[p] : log[p][k].op = op})

\* the step of the upload an operation belongs to
Rank(op) ==
    CASE op = "get_conn"                          -> 1
      [] op \in {"listPath", "createDirectory"}   -> 2
      [] op = "getAttributes"                     -> 3
      [] op \in {"open", "storeFile"}             -> 4
      [] op = "close"                             -> 5
      [] OTHER                                    -> 0

\* every prefix of remote_dir has been probed before position j of the log,
\* and every failed probe was followed by a creation attempt
EnsureDirsDoneBefore(p, j) ==
    LET ps == parts(p)
    IN  \A k \in 1..Len(ps) :
            LET cur == CurrentPath(ps, k)
            IN  \E m \in 1..(j - 1) :
                    /\ log[p][m].op = "listPath"
                    /\ log[p][m].path = cur
                    /\ (~log[p][m].ok =>
                          /\ m + 1 < j
                          /\ log[p][m + 1].op = "createDirectory"
                          /\ log[p][m + 1].path = cur)

\* ------------------------------------------------------------------ claims

\* C1: in every upload the remote operations occur in the order session
\* establishment, directory probes and creations, existence probe of the
\* target (only when overwrite is false), store; the store is issued only
\* after ensure_dirs has finished and the conflict check has passed or
\* been skipped.
C1_OperationOrder ==
    \A p \in Procs :
        IsUpload(p) =>
            /\ \A m \in 1..(Len(log[p]) - 1) :
                   Rank(log[p][m].op) <= Rank(log[p][m + 1].op)
            /\ log[p] # <<>> => log[p][1].op = "get_conn"
            /\ HasEv(p, "getAttributes") => ~call[p].overwrite
            /\ \A j \in DOMAIN log[p] :
                   log[p][j].op \in {"open", "storeFile"} =>
                       /\ log[p][1] = Ev("get_conn", <<>>, TRUE)
                       /\ EnsureDirsDoneBefore(p, j)
                       /\ \/ call[p].overwrite
                          \/ \E m \in 1..(j - 1) :
                                log[p][m] = Ev("getAttributes", call[p].remote_path, FALSE)

\* C1 witness: an upload below two directories, overwrite false, has probed
\* a directory, created one, probed the target and stored the file.
C1_Witness ==
    \E p \in Procs :
        /\ IsUpload(p)
        /\ pc[p] = "returned"
        /\ ~call[p].overwrite
        /\ Len(parts(p)) >= 2
        /\ HasEvOk(p, "listPath", TRUE)
        /\ HasEvOk(p, "createDirectory", TRUE)
        /\ HasEv(p, "getAttributes")
        /\ HasEvOk(p, "storeFile", TRUE)

\* C2: an upload whose session was opened has invoked the release exactly
\* once by the time it returns or raises, whichever step ended it; an
\* upload whose session establishment failed has invoked it zero times; and
\* the release is never invoked twice.
C2_ReleaseExactlyOnce ==
    \A p \in Procs :
        IsUpload(p) =>
            /\ Count(p, "close") <= 1
            /\ (Done(p) /\ HasEvOk(p, "get_conn", TRUE)) =>
                   /\ Count(p, "close") = 1
                   /\ conn[p] = "closed"
            /\ ~HasEvOk(p, "get_conn", TRUE) => Count(p, "close") = 0

\* C2 witness: an upload has ended with a store failure and one release.
C2_Witness ==
    \E p \in Procs :
        /\ IsUpload(p)
        /\ pc[p] = "raised"
        /\ HasEvOk(p, "storeFile", FALSE)
        /\ Count(p, "close") = 1

\* C3: a health probe that opened a session has released it when it
\* returns its result, whether the listing succeeded or failed.
C3_ProbeReleasesSession ==
    \A p \in Procs :
        (IsHealth(p) /\ pc[p] = "returned" /\ HasEvOk(p, "get_conn", TRUE)) =>
            /\ HasEv(p, "close")
            /\ conn[p] = "closed"

\* the kind of outcome the steps before the release have decided
PrimaryOutcome(p) ==
    IF HasEvOk(p, "getAttributes", TRUE) THEN "FileExistsError"
    ELSE IF HasEvOk(p, "open", FALSE) THEN "FileNotFoundError"
    ELSE IF HasEvOk(p, "storeFile", FALSE) THEN "ConnectionError"
    ELSE "none"

\* the errors the steps between get_conn and the release can raise
BodyErrors(p) ==
    LET rd == remote_dir(p)
    IN  {Exc("FileExistsError", <<"Remote file already exists: ">> \o call[p].remote_path),
         Exc("FileNotFoundError", <<"No such file or directory">>)}
            \cup {Exc("ConnectionError", StoreFaultMsg(call[p].remote_path, rd, err)) :
                    err \in StoreErrors}

\* C4: a failure of the release never changes the outcome of an upload: the
\* call ends with the outcome the earlier steps decided (success, the
\* conflict error, the store error) whether close returned or raised, and
\* the error of close is never the one raised.
C4_CloseNeverMasks ==
    \A p \in Procs :
        (IsUpload(p) /\ Done(p) /\ HasEv(p, "close")) =>
            /\ exc[p].type = PrimaryOutcome(p)
            /\ exc[p] = NoExc \/ exc[p] \in BodyErrors(p)
            /\ (pc[p] = "returned") = (PrimaryOutcome(p) = "none")

\* C4 witness: close raised after a successful store and the upload
\* returned normally.
C4_Witness ==
    \E p \in Procs :
        /\ IsUpload(p)
        /\ pc[p] = "returned"
        /\ HasEvOk(p, "storeFile", TRUE)
        /\ HasEvOk(p, "close", FALSE)

\* C5 as stated: once an upload to remotePath has succeeded, a later upload
\* to it with overwrite false that reaches the share ends with the
\* conflict error and issues no store call.
C5_Original ==
    \A p \in Procs :
        (IsUpload(p) /\ call[p].prior /\ ~call[p].overwrite
            /\ HasEvOk(p, "get_conn", TRUE)) =>
            /\ ~HasEv(p, "storeFile")
            /\ Done(p) => exc[p].type = "FileExistsError"

\* C5 amended: once an upload to remotePath has succeeded the file stays at
\* remotePath, and a later upload to it with overwrite false issues a store
\* call only if its existence probe raised; when the probe returns, the
\* upload ends with the conflict error without opening the local file or
\* issuing a store call.
C5_ConflictAfterUpload ==
    \A p \in Procs :
        (IsUpload(p) /\ call[p].prior /\ ~call[p].overwrite) =>
            /\ call[p].remote_path \in files
            /\ HasEv(p, "open") => HasEvOk(p, "getAttributes", FALSE)
            /\ HasEvOk(p, "getAttributes", TRUE) =>
                   /\ ~HasEv(p, "open")
                   /\ ~HasEv(p, "storeFile")
                   /\ Done(p) => (pc[p] = "raised" /\ exc[p].type = "FileExistsError")

\* C5 witness: a second upload to an uploaded path, overwrite false, has
\* ended with the conflict error.
C5_Witness ==
    \E p \in Procs :
        /\ IsUpload(p)
        /\ call[p].prior
        /\ ~call[p].overwrite
        /\ pc[p] = "raised"
        /\ exc[p].type = "FileExistsError"
        /\ call[p].remote_path \in uploaded

\* C6: when overwrite is false and the existence probe of remotePath
\* returns, the upload fails with FileExistsError whose message is exactly
\* "Remote file already exists: <remotePath>", storeFile is never called,
\* the local file is never opened, and the session is released.
C6_ConflictOutcome ==
    \A p \in Procs :
        (IsUpload(p) /\ ~call[p].overwrite /\ HasEvOk(p, "getAttributes", TRUE)) =>
            /\ ~HasEv(p, "storeFile")
            /\ ~HasEv(p, "open")
            /\ pc[p] \in {"close", "raised"}
            /\ exc[p] = Exc("FileExistsError",
                            <<"Remote file already exists: ">> \o call[p].remote_path)
            /\ pc[p] = "raised" => (Count(p, "close") = 1 /\ conn[p] = "closed")

\* C6 witness: an upload below a directory has ended with the conflict
\* error after the probe of the target returned.
C6_Witness ==
    \E p \in Procs :
        /\ IsUpload(p)
        /\ pc[p] = "raised"
        /\ HasEvOk(p, "getAttributes", TRUE)
        /\ remote_dir(p) # <<>>
        /\ HasEv(p, "close")

\* C7: when overwrite is true the upload issues no existence probe of
\* remotePath, never fails with the conflict error, and once the session
\* is open and ensure_dirs is over it always enters the store step,
\* whether or not a file exists at remotePath.
C7_OverwriteSkipsCheck ==
    \A p \in Procs :
        (IsUpload(p) /\ call[p].overwrite) =>
            /\ ~HasEv(p, "getAttributes")
            /\ pc[p] # "getAttributes"
            /\ exc[p].type # "FileExistsError"
            /\ (HasEvOk(p, "get_conn", TRUE) /\ pc[p] \in {"close", "returned", "raised"}) =>
                   /\ HasEv(p, "open")
                   /\ EnsureDirsDoneBefore(p, Len(log[p]) + 1)

\* C7 witness: an upload with overwrite true onto an existing file has
\* stored it again.
C7_Witness ==
    \E p \in Procs :
        /\ IsUpload(p)
        /\ call[p].overwrite
        /\ call[p].prior
        /\ pc[p] = "returned"
        /\ HasEvOk(p, "storeFile", TRUE)

\* C8, for the uploads whose session is established: the call ends in
\* success or with a ConnectionError (StorageFault) or a FileExistsError
\* (PathConflict); no other kind of error leaves smb_upload_file.
C8_FourOutcomes ==
    \A p \in Procs :
        (IsUpload(p) /\ Done(p) /\ HasEvOk(p, "get_conn", TRUE)) =>
            \/ pc[p] = "returned" /\ exc[p] = NoExc
            \/ pc[p] = "raised" /\ exc[p].type \in {"ConnectionError", "FileExistsError"}

\* C9: whenever session establishment fails, get_conn fails with a
\* ConnectionError whose message carries the underlying cause, and no
\* session is handed out.
C9_ConnectionFault ==
    \A p \in Procs :
        HasEvOk(p, "get_conn", FALSE) =>
            /\ conn[p] = "none"
            /\ IsUpload(p) =>
                   /\ exc[p].type = "ConnectionError"
                   /\ exc[p].msg[1] \in {"Could not connect to SMB server: ",
                                         "Could not connect to SMB server"}
            /\ (IsHealth(p) /\ pc[p] = "returned") =>
                   health[p].error[1] \in {"Could not connect to SMB server: ",
                                           "Could not connect to SMB server"}

\* C10: when session establishment fails the upload raises the error of
\* get_conn and has issued no directory probe, no directory creation, no
\* existence probe of the target, no store call and no release call.
C10_NothingAfterFailedConnect ==
    \A p \in Procs :
        (IsUpload(p) /\ HasEvOk(p, "get_conn", FALSE)) =>
            /\ log[p] = <<Ev("get_conn", <<>>, FALSE)>>
            /\ pc[p] = "raised"
            /\ exc[p] \in {get_conn(call[p].impl, o).exc :
                             o \in {x \in ConnOutcomes(call[p].impl) : x.how # "ok"}}
            /\ conn[p] = "none"

\* C10 witness: an upload has ended because the session could not be
\* established.
C10_Witness ==
    \E p \in Procs :
        /\ IsUpload(p)
        /\ pc[p] = "raised"
        /\ HasEvOk(p, "get_conn", FALSE)
        /\ exc[p].type = "ConnectionError"

\* the number of non-empty segments of a slash-delimited path
SegmentCount(s) ==
    Cardinality({k \in 1..Len(s) : s[k] # "/" /\ (k = 1 \/ s[k - 1] = "/")})

\* C11: for a directory path with N non-empty segments and whatever the
\* probes and creations answer, ensure_dirs raises nothing, issues at most
\* N existence probes and at most N creation attempts, and at most one
\* probe and one creation attempt per prefix.
C11_EnsureDirsBounded ==
    \A p \in Procs :
        IsUpload(p) =>
            /\ Count(p, "listPath") <= SegmentCount(remote_dir(p))
            /\ Count(p, "createDirectory") <= SegmentCount(remote_dir(p))
            /\ \A m, n \in DOMAIN log[p] :
                   (m # n /\ log[p][m].op = log[p][n].op
                         /\ log[p][m].op \in {"listPath", "createDirectory"}) =>
                       log[p][m].path # log[p][n].path
            /\ pc[p] \in {"listPath", "createDirectory"} =>
                   (exc[p] = NoExc /\ idx[p] < SegmentCount(remote_dir(p)))
            /\ exc[p] # NoExc =>
                   \/ HasEvOk(p, "get_conn", FALSE)
                   \/ HasEvOk(p, "getAttributes", TRUE)
                   \/ HasEv(p, "open")

\* C11 witness: the walk of "a//b" is over after two failed probes and
\* two creation attempts, one of which failed.
C11_Witness ==
    \E p \in Procs :
        /\ IsUpload(p)
        /\ remote_dir(p) = <<"a", "/", "/", "b">>
        /\ pc[p] \in {"getAttributes", "store"}
        /\ Count(p, "listPath") = 2
        /\ Count(p, "createDirectory") = 2
        /\ HasEvOk(p, "createDirectory", FALSE)

\* C12: no failure during directory provisioning ends the upload: after a
\* failed probe or a failed creation the walk goes on, and once it is over
\* the upload makes the conflict check (when overwrite is false) and, when
\* that passes, enters the store step; the call ends only through the
\* conflict check or the store step.
C12_ProvisioningNeverFatal ==
    \A p \in Procs :
        (IsUpload(p) /\ (HasEvOk(p, "listPath", FALSE) \/ HasEvOk(p, "createDirectory", FALSE))) =>
            /\ pc[p] \in {"listPath", "createDirectory", "getAttributes", "store",
                          "close", "returned", "raised"}
            /\ pc[p] \in {"close", "returned", "raised"} =>
                   /\ EnsureDirsDoneBefore(p, Len(log[p]) + 1)
                   /\ call[p].overwrite \/ HasEv(p, "getAttributes")
                   /\ HasEvOk(p, "getAttributes", TRUE) \/ HasEv(p, "open")
            /\ pc[p] = "store" =>
                   (call[p].overwrite \/ HasEvOk(p, "getAttributes", FALSE))
            /\ exc[p] # NoExc => (HasEvOk(p, "getAttributes", TRUE) \/ HasEv(p, "open"))

\* C12 witness: an upload has stored its file although a directory
\* creation failed on the way.
C12_Witness ==
    \E p \in Procs :
        /\ IsUpload(p)
        /\ pc[p] = "returned"
        /\ HasEvOk(p, "createDirectory", FALSE)
        /\ HasEvOk(p, "storeFile", TRUE)

\* the error texts whose lower-case form holds "unable to open", "no such
\* file" or "path not found"
PathErrorTexts ==
    { <<"Path", " ", "not", " ", "found">>,
      <<"Unable", " ", "to", " ", "open", " ", "file">>,
      <<"No", " ", "such", " ", "file">> }

\* C13: for a store failure with error text e, the message of the error
\* raised is "Failed to store <remotePath> on <share>: Directory path may
\* not exist. Original error: <e>" if and only if remote_dir is non-empty
\* and lower-case e holds one of the three phrases; in every other case it
\* is "Failed to store <remotePath> on <share>: <e>", without the hint.
C13_StoreFaultMessage ==
    \A p \in Procs :
        (IsUpload(p) /\ HasEvOk(p, "storeFile", FALSE)) =>
            /\ exc[p].type = "ConnectionError"
            /\ \E e \in StoreErrors :
                   exc[p].msg =
                       IF remote_dir(p) # <<>> /\ e \in PathErrorTexts
                       THEN <<"Failed to store ">> \o call[p].remote_path \o <<" on share: ">>
                                \o <<"Directory path may not exist. Original error: ">> \o e
                       ELSE <<"Failed to store ">> \o call[p].remote_path \o <<" on share: ">> \o e
            /\ (\E k \in DOMAIN exc[p].msg :
                    exc[p].msg[k] = "Directory path may not exist. Original error: ")
                   => remote_dir(p) # <<>>

\* C13 witness: "Path not found" below a directory has been reported with
\* the hint, and the upload has ended.
C13_Witness ==
    \E p \in Procs :
        /\ IsUpload(p)
        /\ pc[p] = "raised"
        /\ remote_dir(p) # <<>>
        /\ exc[p].msg = <<"Failed to store ">> \o call[p].remote_path \o <<" on share: ">>
                            \o <<"Directory path may not exist. Original error: ">>
                            \o <<"Path", " ", "not", " ", "found">>

\* C14: check_smb_health never raises: a failure to open the session and
\* a failure to list the share root both end in a returned unhealthy
\* result whose error field carries the text of the failure.
C14_ProbeNeverRaises ==
    \A p \in Procs :
        IsHealth(p) =>
            /\ pc[p] # "raised"
            /\ exc[p] = NoExc
            /\ HasEvOk(p, "get_conn", FALSE) =>
                   /\ pc[p] = "returned"
                   /\ health[p].status = "unhealthy"
                   /\ health[p].has_error
                   /\ health[p].error # <<>>
                   /\ \E o \in ConnOutcomes(call[p].impl) :
                          /\ ~get_conn(call[p].impl, o).session
                          /\ health[p].error = get_conn(call[p].impl, o).exc.msg
            /\ HasEvOk(p, "listRoot", FALSE) =>
                   /\ pc[p] \in {"close", "returned"}
                   /\ health[p].status = "unhealthy"
                   /\ health[p].has_error
                   /\ health[p].error = <<"Access denied">>

\* C14 witness: a probe has returned after its listing of the share root
\* raised.
C14_Witness ==
    \E p \in Procs :
        /\ IsHealth(p)
        /\ pc[p] = "returned"
        /\ HasEvOk(p, "get_conn", TRUE)
        /\ HasEvOk(p, "listRoot", FALSE)
        /\ health[p].error = <<"Access denied">>

\* C15: every result of the probe has one of two shapes: healthy, with
\* connection ok, share accessible and no error; or unhealthy, with
\* connection failed, share not accessible and an error text. A listing
\* failure after a successful connect has the same shape as a failed
\* connect, and the result is healthy only when the listing returned.
C15_TwoShapes ==
    \A p \in Procs :
        (IsHealth(p) /\ pc[p] \in {"close", "returned", "raised"}) =>
            /\ \/ /\ health[p].status = "healthy"
                  /\ health[p].smb_connection = "ok"
                  /\ health[p].smb_share_accessible
                  /\ ~health[p].has_error
               \/ /\ health[p].status = "unhealthy"
                  /\ health[p].smb_connection = "failed"
                  /\ ~health[p].smb_share_accessible
                  /\ health[p].has_error
                  /\ health[p].error # <<>>
            /\ health[p].status = "healthy" <=> HasEvOk(p, "listRoot", TRUE)

\* C15 witness: the session was opened, the listing failed, and the result
\* reports the connection as failed.
C15_Witness ==
    \E p \in Procs :
        /\ IsHealth(p)
        /\ pc[p] = "returned"
        /\ HasEvOk(p, "get_conn", TRUE)
        /\ HasEvOk(p, "listRoot", FALSE)
        /\ health[p].smb_connection = "failed"
        /\ ~health[p].smb_share_accessible

\* C16: once the session is open the probe issues one listing of the share
\* root and nothing else but the release: no creation, no existence check,
\* no store; and no step of a probe changes the files and directories of
\* the share.
C16_ProbeReadOnly ==
    /\ [](\A p \in Procs :
             IsHealth(p) =>
                 /\ \A k \in DOMAIN log[p] : log[p][k].op \in {"get_conn", "listRoot", "close"}
                 /\ Count(p, "listRoot") <= 1
                 /\ \A k \in DOMAIN log[p] : log[p][k].op = "listRoot" => log[p][k].path = <<"/">>)
    /\ [][UNCHANGED share
              \/ \A p \in Procs :
                     pc'[p] # pc[p] => ~(IsHealth(p) \/ call'[p].kind = "health")]_vars

\* C16 witness: a probe has listed the root of a share that holds a file
\* and has returned.
C16_Witness ==
    \E p \in Procs :
        /\ IsHealth(p)
        /\ pc[p] = "returned"
        /\ HasEvOk(p, "listRoot", TRUE)
        /\ files # {}
        /\ dirs # {}

\* the three modes a session can be registered with
AuthModes == {"ntlm", "negotiate", "kerberos"}

\* C17: the mode a session is registered with is always ntlm, negotiate or
\* kerberos: an absent, empty or unrecognized mode is replaced by the
\* legacy mapping of use_ntlm_v2 and never reaches register_session.
C17_ValidAuthMode ==
    /\ config.loaded => config.auth_protocol \in AuthModes
    /\ reg.called => reg.auth_protocol \in AuthModes

\* the environment asks for kerberos, in any letter case
ExpectKerberos == env.SMB_AUTH_PROTOCOL \in {"kerberos", "Kerberos"}

\* the names reported as missing
MissingNames == {config.missing[k] : k \in DOMAIN config.missing}

\* C18: load_smb_config_from_env reports SMB_USERNAME (SMB_PASSWORD) as
\* missing exactly when it is empty or unset and the derived mode is not
\* kerberos; SMB_SERVER_NAME, SMB_SERVER_IP and SMB_SHARE_NAME are reported
\* whenever they are empty or unset, whatever the mode.
C18_MissingFields ==
    config.loaded =>
        /\ "SMB_USERNAME" \in MissingNames
               <=> (env.SMB_USERNAME \in {None, ""} /\ ~ExpectKerberos)
        /\ "SMB_PASSWORD" \in MissingNames
               <=> (env.SMB_PASSWORD \in {None, ""} /\ ~ExpectKerberos)
        /\ \A k \in {"SMB_SERVER_NAME", "SMB_SERVER_IP", "SMB_SHARE_NAME"} :
               k \in MissingNames <=> env[k] \in {None, ""}
        /\ config.auth_protocol = "kerberos" <=> ExpectKerberos

\* C18 witness: with the mode kerberos and neither user name nor password
\* set, nothing is reported missing.
C18_Witness ==
    /\ config.loaded
    /\ config.auth_protocol = "kerberos"
    /\ env.SMB_USERNAME = None
    /\ env.SMB_PASSWORD = ""
    /\ config.missing = <<>>

\* C19: the upload endpoint answers by the outcome of the core call: 200
\* with the remote path it uploaded to after a return, 409 for a path
\* conflict, 500 for every other error; the detail of 409 and 500 is the
\* message text of the error.
C19_UploadStatusMapping ==
    \A p \in Procs :
        (IsUpload(p) /\ resp[p] # NoResp) =>
            /\ pc[p] = "returned" =>
                   /\ resp[p].status_code = 200
                   /\ resp[p].status = "ok"
                   /\ resp[p].remote_path = call[p].remote_path
                   /\ HasEvOk(p, "storeFile", TRUE)
            /\ (pc[p] = "raised" /\ exc[p].type = "FileExistsError") =>
                   /\ resp[p].status_code = 409
                   /\ resp[p].detail = exc[p].msg
                   /\ HasEvOk(p, "getAttributes", TRUE)
            /\ (pc[p] = "raised" /\ exc[p].type # "FileExistsError") =>
                   /\ resp[p].status_code = 500
                   /\ resp[p].detail = exc[p].msg
                   /\ resp[p].detail # <<>>
            /\ resp[p].status_code \in {200, 409, 500}

\* C19 witness: an upload that met an existing file has been answered 409
\* with the text of the conflict.
C19_Witness ==
    \E p \in Procs :
        /\ IsUpload(p)
        /\ resp[p].status_code = 409
        /\ resp[p].detail = exc[p].msg
        /\ exc[p].type = "FileExistsError"
        /\ ~HasEv(p, "storeFile")

\* C20: the health endpoint answers 200 exactly when no configuration
\* variable is missing and the probe returned healthy, and 503 otherwise;
\* with a variable missing the probe is not run at all and the connection
\* is reported as not_configured.
C20_HealthStatusMapping ==
    \A p \in Procs :
        (call[p].kind \in {"health", "not_configured"} /\ resp[p] # NoResp) =>
            /\ resp[p].status_code \in {200, 503}
            /\ resp[p].status_code = 200 <=>
                   /\ call[p].missing = <<>>
                   /\ HasEvOk(p, "listRoot", TRUE)
                   /\ health[p].status = "healthy"
            /\ call[p].missing # <<>> =>
                   /\ log[p] = <<>>
                   /\ conn[p] = "none"
                   /\ resp[p].smb_connection = "not_configured"
                   /\ resp[p].status = "unhealthy"
            /\ call[p].missing = <<>> =>
                   /\ HasEv(p, "get_conn")
                   /\ resp[p].status = health[p].status
                   /\ resp[p].smb_connection = health[p].smb_connection

\* C20 witness: with the user name and the password missing the endpoint
\* has answered 503 not_configured without any operation on the server.
C20_Witness ==
    \E p \in Procs :
        /\ call[p].kind = "not_configured"
        /\ call[p].missing = <<"SMB_USERNAME", "SMB_PASSWORD">>
        /\ resp[p].status_code = 503
        /\ resp[p].smb_connection = "not_configured"
        /\ log[p] = <<>>

\* the request came through the /upload endpoint and reached the core
ViaEndpoint(p) == IsUpload(p) /\ local[p].state # "none"

\* the names in a list of missing variables
NamesOf(missing) == {missing[k] : k \in DOMAIN missing}

\* the tokens of a text
TokensOf(text) == {text[k] : k \in DOMAIN text}

\* C21: an /upload request that finds a required variable missing is
\* rejected before the core is invoked: no temporary file is staged, no
\* session is opened, no operation of smb_upload_file is issued, and the
\* response (500) names every missing variable.
C21_RejectedBeforeCore ==
    \A p \in Procs :
        /\ call[p].kind = "rejected" =>
               /\ call[p].missing # <<>>
               /\ local[p].state = "none"
               /\ log[p] = <<>>
               /\ conn[p] = "none"
               /\ sess[p] = "none"
               /\ pc[p] = "raised"
               /\ resp[p].status_code = 500
               /\ NamesOf(call[p].missing) \subseteq TokensOf(resp[p].detail)
        /\ ViaEndpoint(p) => call[p].missing = <<>>

\* C21 witness: a request without server address and password has been
\* answered 500 with both names and nothing was staged.
C21_Witness ==
    \E p \in Procs :
        /\ call[p].kind = "rejected"
        /\ call[p].missing = <<"SMB_SERVER_IP", "SMB_PASSWORD">>
        /\ resp[p].detail = <<"Missing SMB configuration environment variables: ",
                              "SMB_SERVER_IP", ", ", "SMB_PASSWORD">>
        /\ local[p].state = "none"

\* C22: the remote path the /upload endpoint hands to the core is
\* non-empty, whatever remote_path was submitted.
C22_NonEmptyRemotePath ==
    \A p \in Procs : ViaEndpoint(p) => call[p].remote_path # <<>>

\* the number of slashes a path begins with
LeadingSlashes(path) ==
    Cardinality({i \in 1..Len(path) : \A j \in 1..i : path[j] = "/"})

\* C23: the remote path the /upload endpoint hands to the core never
\* begins with "/": it is the submitted remote_path without all of its
\* leading slashes, the rest unchanged.
C23_NoLeadingSlash ==
    \A p \in Procs :
        ViaEndpoint(p) =>
            /\ call[p].remote_path =
                   SubSeq(local[p].raw, LeadingSlashes(local[p].raw) + 1, Len(local[p].raw))
            /\ call[p].remote_path # <<>> => call[p].remote_path[1] # "/"

\* C23 witness: "//a/f" was submitted and the core has stored "a/f".
C23_Witness ==
    \E p \in Procs :
        /\ ViaEndpoint(p)
        /\ local[p].raw = <<"/", "/", "a", "/", "f">>
        /\ call[p].remote_path = <<"a", "/", "f">>
        /\ HasEvOk(p, "storeFile", TRUE)

C24_WitnessEmpty ==
    \E p \in Procs :
        /\ ViaEndpoint(p)
        /\ pc[p] = "returned"
        /\ local[p].body = <<>>
        /\ data[call[p].remote_path] = <<>>

\* C27: for every /upload request that staged its temporary file and
\* called the core, the removal of the file is attempted exactly once,
\* after the core has returned or raised and before the response; a
\* failed removal leaves the response what the outcome of the core makes it.
C27_TempRemovedOnce ==
    \A p \in Procs :
        ViaEndpoint(p) =>
            /\ local[p].removals <= 1
            /\ ~Done(p) => (local[p].removals = 0 /\ local[p].state = "staged")
            /\ resp[p] # NoResp =>
                   /\ local[p].removals = 1
                   /\ local[p].state \in {"removed", "kept"}
                   /\ resp[p].status_code =
                          IF pc[p] = "returned" THEN 200
                          ELSE IF HasEvOk(p, "getAttributes", TRUE) THEN 409 ELSE 500
                   /\ pc[p] = "returned" => HasEvOk(p, "storeFile", TRUE)
                   /\ pc[p] = "raised" =>
                          (resp[p].detail = exc[p].msg /\ exc[p].type # "OSError")

\* C27 witness: the core failed, the removal of the temporary file failed
\* too, and the response is the 500 of the core's error.
C27_Witness ==
    \E p \in Procs :
        /\ ViaEndpoint(p)
        /\ HasEvOk(p, "storeFile", FALSE)
        /\ local[p].state = "kept"
        /\ local[p].removals = 1
        /\ resp[p].status_code = 500
        /\ resp[p].detail = exc[p].msg

\* the store of invocation p goes through: storeFile returns
StoreGoesThrough(p) ==
    Store(p) /\ log'[p][Len(log'[p])] = Ev("storeFile", call[p].remote_path, TRUE)

\* C25: the conflict check and the store are two steps with nothing that
\* excludes other uploads in between: an upload that has passed the check
\* can complete its store in every state that follows, also once another
\* upload has written the same path in the meantime, and nothing sends it
\* back to the check.
C25_CheckThenAct ==
    \A p \in Procs :
        (IsUpload(p) /\ pc[p] = "store") =>
            /\ ENABLED StoreGoesThrough(p)
            /\ ~call[p].overwrite => HasEvOk(p, "getAttributes", FALSE)
            /\ Count(p, "getAttributes") <= 1

\* C25 witness: two uploads of the same absent path with overwrite=False
\* have both passed the conflict check and both stand before their store.
C25_Witness ==
    \E p, q \in Procs :
        /\ p # q
        /\ IsUpload(p) /\ IsUpload(q)
        /\ call[p].remote_path = call[q].remote_path
        /\ ~call[p].overwrite /\ ~call[q].overwrite
        /\ call[p].remote_path \notin files
        /\ pc[p] = "store" /\ pc[q] = "store"
        /\ HasEvOk(p, "getAttributes", FALSE) /\ HasEvOk(q, "getAttributes", FALSE)

\* C26: every invocation that holds a session holds one of its own: no
\* invocation is handed a session that another invocation opened.
C26_OwnSession ==
    \A p \in Procs : sess[p] # "shared"

\* the paths of the operations op of invocation p, in the order issued
PathsOf(p, op) ==
    LET evs == SelectSeq(log[p], LAMBDA e : e.op = op)
    IN  [k \in DOMAIN evs |-> evs[k].path]

\* no operation of invocation p failed but probes of what is not there
NoFault(p) ==
    \A k \in DOMAIN log[p] :
        log[p][k].ok \/ log[p][k].op \in {"listPath", "getAttributes"}

FailedProbes(p) ==
    LET evs == SelectSeq(log[p], LAMBDA e : e.op = "listPath" /\ ~e.ok)
    IN  [k \in DOMAIN evs |-> evs[k].path]

\* ensure_dirs of invocation p is over
EnsureDirsOver(p) ==
    /\ HasEvOk(p, "get_conn", TRUE)
    /\ pc[p] \notin {"listPath", "createDirectory"}

Qualified == <<reg.domain, "\\", reg.user>>

\* C30 as stated: the identity a session is opened with is
\* "<domain>\<username>" exactly when a domain is present and the mode is
\* not kerberos, and the bare user name otherwise.
C30_DomainOnly ==
    reg.called =>
        /\ reg.username = Qualified
               <=> (reg.domain \notin {None, ""} /\ reg.auth_protocol # "kerberos")
        /\ reg.username # Qualified => reg.username = <<reg.user>>

\* C30 amended: the identity is "<domain>\<username>" exactly when a user
\* name and a domain are both present and the mode is not kerberos; in
\* every other case (no user name, no domain, or kerberos) it is the user
\* name as given, which may be absent.
C30_Identity ==
    reg.called =>
        /\ reg.username = Qualified
               <=> /\ reg.user \notin {None, ""}
                   /\ reg.domain \notin {None, ""}
                   /\ reg.auth_protocol # "kerberos"
        /\ reg.username # Qualified => reg.username = <<reg.user>>

\* C30 witness: a session was registered for a domain without a user
\* name, in a mode other than kerberos, under the absent user name.
C30_Witness ==
    /\ reg.called
    /\ reg.domain = "D"
    /\ reg.user = None
    /\ reg.auth_protocol = "ntlm"
    /\ reg.username = <<None>>

\* C31: the session is opened at the explicit server address whenever
\* that is non-empty, and at the server name only when the address is
\* empty or absent.
C31_ServerAddress ==
    reg.called =>
        reg.server = IF env.SMB_SERVER_IP \notin {None, ""}
                     THEN env.SMB_SERVER_IP ELSE env.SMB_SERVER_NAME

\* C31 witness: name and address are both given and the session was
\* opened at the address.
C31_Witness ==
    /\ reg.called
    /\ env.SMB_SERVER_NAME = "x"
    /\ env.SMB_SERVER_IP = "10.0.0.1"
    /\ reg.server = "10.0.0.1"

\* C32: with overwrite false, an existence probe that fails, because the
\* file is not there or for any other reason while it is there, counts as
\* "file absent": the upload raises no conflict and no error of the probe,
\* and goes on to the store step.
C32_ProbeFailureIsAbsent ==
    \A p \in Procs :
        (IsUpload(p) /\ ~call[p].overwrite /\ HasEvOk(p, "getAttributes", FALSE)) =>
            /\ exc[p].type # "FileExistsError"
            /\ pc[p] = "store" \/ HasEv(p, "open")
            /\ exc[p] # NoExc => (HasEvOk(p, "open", FALSE) \/ HasEvOk(p, "storeFile", FALSE))

\* C32 witness: the probe of a file that an earlier upload had stored
\* failed, and the upload stored the file again.
C32_Witness ==
    \E p \in Procs :
        /\ IsUpload(p)
        /\ ~call[p].overwrite
        /\ call[p].prior
        /\ HasEvOk(p, "getAttributes", FALSE)
        /\ HasEvOk(p, "storeFile", TRUE)
        /\ pc[p] = "returned"

\* the operation that follows the k-th one of invocation p, or the step the
\* invocation stands at when the k-th is its latest
FollowedBy(p, k) == IF k < Len(log[p]) THEN log[p][k + 1].op ELSE pc[p]

IsWalk(p) == call[p].kind = "ensure_dirs"

\* a path without a leading, a trailing or a doubled slash
WellFormed(s) ==
    /\ s # <<>>
    /\ s[1] # "/" /\ s[Len(s)] # "/"
    /\ \A k \in 1..(Len(s) - 1) : ~(s[k] = "/" /\ s[k + 1] = "/")

\* the segments of a path, slashes left out
Segments(s) == SelectSeq(s, LAMBDA t : t # "/")

C35_Idempotent ==
    [][\A p \in Procs :
          (IsWalk(p) /\ call[p].prior /\ pc[p] # "idle") =>
              /\ dirs' = dirs
              /\ exc'[p] = NoExc
              /\ pc'[p] # "raised"]_vars

\* C35 witness: a second walk of "a/b", made when "a" and "a/b" were
\* there, has returned after a probe that failed and a creation attempt
\* that was absorbed, with both directories still there.
C35_Witness ==
    \E p \in Procs :
        /\ IsWalk(p)
        /\ call[p].prior
        /\ call[p].dir_path = <<"a", "/", "b">>
        /\ pc[p] = "returned"
        /\ HasEvOk(p, "createDirectory", FALSE)
        /\ {<<"a">>, <<"a", "/", "b">>} \subseteq dirs

\* the operations of invocation p after its k-th one
After(p, k) == {log[p][j].op : j \in (k + 1)..Len(log[p])}

\* C36: one upload call makes one attempt to open the session, at most
\* one existence probe of the target, at most one opening of the local
\* file and at most one store attempt; a failed session establishment
\* ends the call at once with its error, and a failed store is followed by
\* the release of the session only.
C36_NoRetry ==
    \A p \in Procs :
        IsUpload(p) =>
            /\ Count(p, "get_conn") = IF pc[p] = "get_conn" THEN 0 ELSE 1
            /\ Count(p, "getAttributes") <= 1
            /\ Count(p, "open") <= 1
            /\ Count(p, "storeFile") <= 1
            /\ HasEvOk(p, "get_conn", FALSE) =>
                   /\ Len(log[p]) = 1
                   /\ pc[p] = "raised"
                   /\ exc[p] # NoExc
            /\ \A k \in DOMAIN log[p] :
                   (log[p][k].op \in {"open", "storeFile"} /\ ~log[p][k].ok) =>
                       /\ After(p, k) \subseteq {"close"}
                       /\ pc[p] \in {"close", "raised"}
                       /\ exc[p] # NoExc

\* C36 witness: an upload made one store attempt, which failed, released
\* its session and raised the ConnectionError of the store.
C36_Witness ==
    \E p \in Procs :
        /\ IsUpload(p)
        /\ pc[p] = "raised"
        /\ Count(p, "get_conn") = 1
        /\ Count(p, "storeFile") = 1
        /\ HasEvOk(p, "storeFile", FALSE)
        /\ log[p][Len(log[p])].op = "close"
        /\ exc[p].type = "ConnectionError"

\* C37: an upload, which calls get_conn without an auth_protocol, opens its
\* session with the mode a health probe that is given the configured mode
\* opens its session with.
C37_SameMode ==
    (reg.called /\ reg.arg = None) =>
        reg.auth_protocol = EffectiveAuth(config.auth_protocol, config.use_ntlm_v2)

\* C38: a temporary file that is still there when its request is over is
\* there only because its removal was attempted and failed: every
\* temporary file gets its removal, also when staging the upload into it
\* failed.
C38_TempAlwaysRemoved ==
    \A p \in Procs :
        (Done(p) /\ local[p].state = "kept") => local[p].removals = 1

\* the chunks of at most ChunkSize bytes a body is read in
NonEmptyChunks(body) == (Len(body) + ChunkSize - 1) \div ChunkSize

\* C39: when save_upload_to_temp has returned, the temporary file holds
\* the chunks read, in read order, which is the body (nothing for an empty
\* upload); read was called once per non-empty chunk and once more for the
\* empty chunk that ends the loop; and the upload stream was closed once.
C39_ReadUntilEmpty ==
    \A p \in Procs :
        (call[p].kind = "upload" /\ local[p].state # "none") =>
            /\ local[p].content = local[p].body
            /\ local[p].reads = NonEmptyChunks(local[p].body) + 1
            /\ local[p].closes = 1

\* C39 witness: a body of exactly two chunks has been staged with three
\* calls of read.
C39_Witness ==
    \E p \in Procs :
        /\ call[p].kind = "upload"
        /\ local[p].state = "staged"
        /\ Len(local[p].body) = 2 * ChunkSize
        /\ local[p].content = local[p].body
        /\ local[p].reads = 3
        /\ local[p].closes = 1

====
